---- MODULE Spec2Model ----
(***************************************************************************)
(* Model of the AI chat module of hellodeveye/nav (src/js/chat.js):        *)
(* StorageManager, StreamProcessor, ChatAPIClient and ChatController.      *)
(*                                                                         *)
(* Texts are sequences of one-token strings.  A token of the wire is a     *)
(* byte or a lexeme of the event-stream / JSON syntax:                     *)
(*   "data:" " "            the two halves of the prefix 'data: '          *)
(*   "[DONE]"               the sentinel payload                           *)
(*   "{" "}" "[" "]" ","    JSON punctuation                               *)
(*   "choices:" ...         a quoted member name with its colon            *)
(*   "user" "assistant"     a quoted role name                             *)
(*   "null"                 the JSON literal                               *)
(*   Q ... Q                a JSON string, BS starting an escape           *)
(*   LF CR                  the line break bytes / characters              *)
(*   "C3" "A9"              the two UTF-8 bytes of the character "é"       *)
(***************************************************************************)
EXTENDS Integers, Sequences, FiniteSets, TLC

LF == "LF"
CR == "CR"
SP == " "
Q  == "Q"
BS == "BS"
REPLACEMENT == "FFFD"

----------------------------------------------------------------------------
(* CHAT_CONFIG *)

DATA_PREFIX == <<"data:", SP>>
DONE_MESSAGE == <<"[DONE]">>
SYSTEM_PROMPT == <<"sys">>

----------------------------------------------------------------------------
(* JavaScript string primitives *)

IsSpace(c) == c \in {SP, CR, LF}

RECURSIVE TrimStart(_)
TrimStart(s) ==
    IF s # <<>> /\ IsSpace(Head(s)) THEN TrimStart(Tail(s)) ELSE s

RECURSIVE TrimEnd(_)
TrimEnd(s) ==
    IF s # <<>> /\ IsSpace(s[Len(s)]) THEN TrimEnd(SubSeq(s, 1, Len(s) - 1)) ELSE s

\* a trim that removes nothing
TrimNothing(s) == s

\* String.prototype.trim
Trim(s) == TrimEnd(TrimStart(s))

\* String.prototype.startsWith
StartsWith(s, p) == Len(s) >= Len(p) /\ SubSeq(s, 1, Len(p)) = p

\* String.prototype.slice(n)
Slice(s, n) == SubSeq(s, n + 1, Len(s))

\* the smallest element of a non-empty set of numbers
Least(S) == CHOOSE i \in S : \A j \in S : i <= j

\* String.prototype.split('\n'): always at least one piece
RECURSIVE Split(_)
Split(s) ==
    LET breaks == {i \in 1..Len(s) : s[i] = LF} IN
    IF breaks = {} THEN <<s>>
    ELSE LET i == Least(breaks) IN
         <<SubSeq(s, 1, i - 1)>> \o Split(SubSeq(s, i + 1, Len(s)))

\* String.prototype.replace(/^[\r\n]+/, '')
RECURSIVE StripLeadingNewlines(_)
StripLeadingNewlines(s) ==
    IF s # <<>> /\ Head(s) \in {CR, LF} THEN StripLeadingNewlines(Tail(s)) ELSE s

----------------------------------------------------------------------------
(* TextDecoder('utf-8').decode(value, {stream: true}).  `pending` is the   *)
(* lead byte of a character whose continuation has not arrived yet.        *)

RECURSIVE DecodeBytes(_, _)
DecodeBytes(pending, bytes) ==
    IF bytes = <<>> THEN [text |-> <<>>, pending |-> pending]
    ELSE IF pending # <<>>
    THEN \* a lead byte waits for its continuation
         LET rest == IF Head(bytes) = "A9"
                     THEN DecodeBytes(<<>>, Tail(bytes))
                     ELSE DecodeBytes(<<>>, bytes)
             char == IF Head(bytes) = "A9" THEN "é" ELSE REPLACEMENT
         IN [text |-> <<char>> \o rest.text, pending |-> rest.pending]
    ELSE LET multi == {i \in 1..Len(bytes) : bytes[i] \in {"C3", "A9"}} IN
         IF multi = {} THEN [text |-> bytes, pending |-> <<>>]
         ELSE LET i == Least(multi)
                  rest == DecodeBytes(IF bytes[i] = "C3" THEN <<"C3">> ELSE <<>>,
                                      SubSeq(bytes, i + 1, Len(bytes)))
              IN [text |-> SubSeq(bytes, 1, i - 1)
                           \o (IF bytes[i] = "A9" THEN <<REPLACEMENT>> ELSE <<>>)
                           \o rest.text,
                  pending |-> rest.pending]

TextDecode(pending, bytes) == DecodeBytes(pending, bytes)

----------------------------------------------------------------------------
(* JSON.parse.  A value is [t |-> "str", s |-> text], [t |-> "atom",       *)
(* s |-> name], [t |-> "null"], [t |-> "arr", a |-> values] or             *)
(* [t |-> "obj", o |-> <<[k |-> name, v |-> value], ...>>].  A parse       *)
(* returns [ok, val, rest]; ok = FALSE is a thrown SyntaxError.            *)

KeyTokens == {"choices:", "delta:", "content:", "reasoning_content:", "role:"}
AtomTokens == {"user", "assistant", "system"}

KeyName(tok) ==
    CASE tok = "choices:" -> "choices"
      [] tok = "delta:" -> "delta"
      [] tok = "content:" -> "content"
      [] tok = "reasoning_content:" -> "reasoning_content"
      [] tok = "role:" -> "role"

ParseFail == [ok |-> FALSE, val |-> [t |-> "null"], rest |-> <<>>]

SkipSpace(s) == TrimStart(s)

\* the characters of a string literal, after its opening quote
RECURSIVE ParseChars(_, _)
ParseChars(s, out) ==
    IF s = <<>> THEN ParseFail
    ELSE LET c == Head(s) IN
         IF c = Q THEN [ok |-> TRUE, val |-> [t |-> "str", s |-> out], rest |-> Tail(s)]
         ELSE IF c \in {LF, CR} THEN ParseFail
         ELSE IF c = BS
              THEN IF Len(s) < 2 THEN ParseFail
                   ELSE LET e == s[2] IN
                        IF e = "n" THEN ParseChars(Slice(s, 2), Append(out, LF))
                        ELSE IF e = "r" THEN ParseChars(Slice(s, 2), Append(out, CR))
                        ELSE IF e \in {Q, BS} THEN ParseChars(Slice(s, 2), Append(out, e))
                        ELSE ParseFail
         ELSE ParseChars(Tail(s), Append(out, c))

RECURSIVE ParseValue(_)
RECURSIVE ParseElements(_, _)
RECURSIVE ParseMembers(_, _)

ParseValue(s0) ==
    LET s == SkipSpace(s0) IN
    IF s = <<>> THEN ParseFail
    ELSE LET c == Head(s) IN
         IF c = "null" THEN [ok |-> TRUE, val |-> [t |-> "null"], rest |-> Tail(s)]
         ELSE IF c \in AtomTokens
              THEN [ok |-> TRUE, val |-> [t |-> "atom", s |-> c], rest |-> Tail(s)]
         ELSE IF c = Q THEN ParseChars(Tail(s), <<>>)
         ELSE IF c = "["
              THEN LET r == SkipSpace(Tail(s)) IN
                   IF r # <<>> /\ Head(r) = "]"
                   THEN [ok |-> TRUE, val |-> [t |-> "arr", a |-> <<>>], rest |-> Tail(r)]
                   ELSE ParseElements(r, <<>>)
         ELSE IF c = "{"
              THEN LET r == SkipSpace(Tail(s)) IN
                   IF r # <<>> /\ Head(r) = "}"
                   THEN [ok |-> TRUE, val |-> [t |-> "obj", o |-> <<>>], rest |-> Tail(r)]
                   ELSE ParseMembers(r, <<>>)
         ELSE ParseFail

\* the elements of an array, after "[" : value ("," value)* "]"
ParseElements(s, acc) ==
    LET v == ParseValue(s) IN
    IF ~v.ok THEN ParseFail
    ELSE LET r == SkipSpace(v.rest) IN
         IF r = <<>> THEN ParseFail
         ELSE IF Head(r) = "]"
              THEN [ok |-> TRUE, val |-> [t |-> "arr", a |-> Append(acc, v.val)],
                    rest |-> Tail(r)]
         ELSE IF Head(r) = "," THEN ParseElements(Tail(r), Append(acc, v.val))
         ELSE ParseFail

\* the members of an object, after "{" : key value ("," key value)* "}"
ParseMembers(s0, acc) ==
    LET s == SkipSpace(s0) IN
    IF s = <<>> \/ Head(s) \notin KeyTokens THEN ParseFail
    ELSE LET v == ParseValue(Tail(s)) IN
         IF ~v.ok THEN ParseFail
         ELSE LET m == [k |-> KeyName(Head(s)), v |-> v.val]
                  r == SkipSpace(v.rest) IN
              IF r = <<>> THEN ParseFail
              ELSE IF Head(r) = "}"
                   THEN [ok |-> TRUE, val |-> [t |-> "obj", o |-> Append(acc, m)],
                         rest |-> Tail(r)]
              ELSE IF Head(r) = "," THEN ParseMembers(Tail(r), Append(acc, m))
              ELSE ParseFail

\* JSON.parse(text): [ok |-> FALSE] when it throws
JSONParse(text) ==
    LET v == ParseValue(text) IN
    IF v.ok /\ SkipSpace(v.rest) = <<>>
    THEN [ok |-> TRUE, val |-> v.val]
    ELSE [ok |-> FALSE, val |-> [t |-> "null"]]

\* property access obj.k: "undefined" when obj has no such member (for a
\* repeated name the last member wins, as in JSON.parse)
HasMember(val, k) == val.t = "obj" /\ \E i \in 1..Len(val.o) : val.o[i].k = k

Member(val, k) ==
    LET i == CHOOSE j \in 1..Len(val.o) :
                 /\ val.o[j].k = k
                 /\ \A h \in (j + 1)..Len(val.o) : val.o[h].k # k
    IN val.o[i].v

----------------------------------------------------------------------------
(* StreamProcessor *)

\* String(v) as `reasoning + content` coerces a value
RECURSIVE ToText(_)
RECURSIVE JoinTexts(_, _)

ToText(val) ==
    CASE val.t = "str" -> val.s
      [] val.t = "atom" -> <<val.s>>
      [] val.t = "null" -> <<"null">>
      [] val.t = "obj" -> <<"[object Object]">>
      [] val.t = "arr" -> JoinTexts(val.a, 1)

JoinTexts(a, i) ==
    IF i > Len(a) THEN <<>>
    ELSE (IF a[i].t = "null" THEN <<>> ELSE ToText(a[i]))
         \o (IF i < Len(a) THEN <<",">> ELSE <<>>)
         \o JoinTexts(a, i + 1)

\* `v || ''` for a property v of the delta: a falsy value gives ''
OrEmpty(val, k) ==
    IF ~HasMember(val, k) THEN <<>>
    ELSE LET v == Member(val, k) IN
         IF v.t = "null" \/ (v.t = "str" /\ v.s = <<>>) THEN <<>> ELSE ToText(v)

\* an extractContent that puts the content before the reasoning
extractContentSwapped(defined, delta) ==
    IF ~defined THEN <<>>
    ELSE OrEmpty(delta, "content") \o OrEmpty(delta, "reasoning_content")

\* extractContent(delta); `defined` is FALSE for an undefined or null delta
extractContent(defined, delta) ==
    IF ~defined THEN <<>>
    ELSE LET content == OrEmpty(delta, "content")
             reasoning == OrEmpty(delta, "reasoning_content")
         IN reasoning \o content

\* data.choices[0]?.delta handed to extractContent, for a parsed `data`
\* (thrown: null.choices, undefined[0] and null[0] throw a TypeError)
DeltaContent(data) ==
    LET Of(choices) ==
            IF choices.t = "null" THEN [thrown |-> TRUE, text |-> <<>>]
            ELSE IF choices.t = "arr" /\ choices.a # <<>>
                    /\ HasMember(choices.a[1], "delta")
                    /\ Member(choices.a[1], "delta").t # "null"
                 THEN [thrown |-> FALSE,
                       text |-> extractContent(TRUE, Member(choices.a[1], "delta"))]
                 ELSE [thrown |-> FALSE, text |-> extractContent(FALSE, [t |-> "null"])]
    IN  IF data.t = "null" \/ ~HasMember(data, "choices")
        THEN [thrown |-> TRUE, text |-> <<>>]
        ELSE Of(Member(data, "choices"))

\* the body of the try block of parseSSELine:
\*   JSON.parse(dataStr), data.choices[0]?.delta, extractContent
ParsePayload(dataStr) ==
    LET Of(p) == IF ~p.ok THEN [thrown |-> TRUE, text |-> <<>>] ELSE DeltaContent(p.val)
    IN  Of(JSONParse(dataStr))

\* a parseSSELine that lets the exception of its try block escape
parseSSELineNoCatch(line) ==
    LET Of(trimmedLine) ==
            IF trimmedLine = <<>> \/ trimmedLine = DATA_PREFIX \o DONE_MESSAGE
            THEN [thrown |-> FALSE, text |-> <<>>]
            ELSE IF StartsWith(trimmedLine, DATA_PREFIX)
                 THEN ParsePayload(Slice(trimmedLine, Len(DATA_PREFIX)))
                 ELSE [thrown |-> FALSE, text |-> <<>>]
    IN  Of(Trim(line))

\* a parseSSELine that returns a line of another shape as it is
parseSSELineEcho(line) ==
    LET Caught(r) == IF r.thrown THEN [thrown |-> FALSE, text |-> <<>>] ELSE r
        Of(trimmedLine) ==
            IF trimmedLine = <<>> \/ trimmedLine = DATA_PREFIX \o DONE_MESSAGE
            THEN [thrown |-> FALSE, text |-> <<>>]
            ELSE IF StartsWith(trimmedLine, DATA_PREFIX)
                 THEN Caught(ParsePayload(Slice(trimmedLine, Len(DATA_PREFIX))))
                 ELSE [thrown |-> FALSE, text |-> trimmedLine]
    IN  Of(Trim(line))

\* parseSSELine(line): the extracted content or ''
parseSSELine(line) ==
    LET Caught(r) == IF r.thrown THEN [thrown |-> FALSE, text |-> <<>>] ELSE r
        Of(trimmedLine) ==
            IF trimmedLine = <<>> \/ trimmedLine = DATA_PREFIX \o DONE_MESSAGE
            THEN [thrown |-> FALSE, text |-> <<>>]
            ELSE IF StartsWith(trimmedLine, DATA_PREFIX)
                 THEN Caught(ParsePayload(Slice(trimmedLine, Len(DATA_PREFIX))))
                 ELSE [thrown |-> FALSE, text |-> <<>>]
    IN  Of(Trim(line))

\* lines.pop() misread: the last piece is interpreted with the others and
\* nothing is carried over
PopLinesNoCarry(pieces) == [lines |-> pieces, buffer |-> <<>>]

\* const lines = buffer.split('\n'); buffer = lines.pop()
PopLines(pieces) ==
    [lines |-> SubSeq(pieces, 1, Len(pieces) - 1), buffer |-> pieces[Len(pieces)]]

\* for (const line of lines) { content = parseSSELine(line); if (content) chunkContent += content }
\* `frags` lists what parseSSELine returned for each line it was given
RECURSIVE ProcessLines(_, _, _)
ProcessLines(lines, chunkContent, frags) ==
    LET Of(r) ==
            IF r.thrown
            THEN [thrown |-> TRUE, chunkContent |-> chunkContent, frags |-> frags]
            ELSE ProcessLines(Tail(lines), chunkContent \o r.text, Append(frags, r.text))
    IN  IF lines = <<>>
        THEN [thrown |-> FALSE, chunkContent |-> chunkContent, frags |-> frags]
        ELSE Of(parseSSELine(Head(lines)))

\* the locals of processStream before the first read
NewStream == [pending |-> <<>>, fullResponse |-> <<>>, buffer |-> <<>>,
              isFirstContent |-> TRUE]

\* a loop body that keeps the content of the chunk as the response
\* (fullResponse = chunkContent)
ProcessChunkReplacing(sp, value) ==
    LET Content(chunkContent) ==
            IF sp.isFirstContent THEN StripLeadingNewlines(chunkContent) ELSE chunkContent
        Of(pending, buffer, r) ==
            IF ~r.thrown /\ r.chunkContent # <<>>
            THEN [thrown |-> FALSE, onChunk |-> TRUE, frags |-> r.frags,
                  sp |-> [pending |-> pending, buffer |-> buffer,
                          fullResponse |-> Content(r.chunkContent),
                          isFirstContent |-> FALSE]]
            ELSE [thrown |-> r.thrown, onChunk |-> FALSE, frags |-> r.frags,
                  sp |-> [sp EXCEPT !.pending = pending, !.buffer = buffer]]
        Lines(pending, popped) ==
            Of(pending, popped.buffer, ProcessLines(popped.lines, <<>>, <<>>))
        Decoded(d) == Lines(d.pending, PopLines(Split(sp.buffer \o d.text)))
    IN  Decoded(TextDecode(sp.pending, value))

\* one turn of the while loop of processStream with { done: false, value }
\* (thrown: an exception left the loop; onChunk: onChunk(fullResponse) was called)
ProcessChunk(sp, value) ==
    LET Content(chunkContent) ==
            IF sp.isFirstContent THEN StripLeadingNewlines(chunkContent) ELSE chunkContent
        Of(pending, buffer, r) ==
            IF ~r.thrown /\ r.chunkContent # <<>>
            THEN [thrown |-> FALSE, onChunk |-> TRUE, frags |-> r.frags,
                  sp |-> [pending |-> pending, buffer |-> buffer,
                          fullResponse |-> sp.fullResponse \o Content(r.chunkContent),
                          isFirstContent |-> FALSE]]
            ELSE [thrown |-> r.thrown, onChunk |-> FALSE, frags |-> r.frags,
                  sp |-> [sp EXCEPT !.pending = pending, !.buffer = buffer]]
        Lines(pending, popped) ==
            Of(pending, popped.buffer, ProcessLines(popped.lines, <<>>, <<>>))
        Decoded(d) == Lines(d.pending, PopLines(Split(sp.buffer \o d.text)))
    IN  Decoded(TextDecode(sp.pending, value))

-----
(* StorageManager over localStorage.  An item is [present, value].  `fault` *)
(* is "none", "quota" (setItem throws) or "denied" (every access throws).  *)

NoItem == [present |-> FALSE, value |-> <<>>]
Item(text) == [present |-> TRUE, value |-> text]

\* a stringify that writes the characters as they are
EscapeCharsRaw(s) == s

\* JSON.stringify of a string: the characters escaped, between quotes
RECURSIVE EscapeChars(_)
EscapeChars(s) ==
    IF s = <<>> THEN <<>>
    ELSE LET c == Head(s) IN
         (CASE c = LF -> <<BS, "n">>
            [] c = CR -> <<BS, "r">>
            [] c = Q  -> <<BS, Q>>
            [] c = BS -> <<BS, BS>>
            [] OTHER  -> <<c>>) \o EscapeChars(Tail(s))

StringifyMessage(m) ==
    <<"{", "role:", m.role, ",", "content:", Q>> \o EscapeChars(m.content) \o <<Q, "}">>

RECURSIVE StringifyMessages(_)
StringifyMessages(h) ==
    IF h = <<>> THEN <<>>
    ELSE StringifyMessage(Head(h))
         \o (IF Len(h) > 1 THEN <<",">> ELSE <<>>)
         \o StringifyMessages(Tail(h))

\* JSON.stringify(history)
JSONStringify(h) == <<"[">> \o StringifyMessages(h) \o <<"]">>

\* a parsed value that is an array of { role, content } objects
IsMessage(v) ==
    /\ HasMember(v, "role") /\ Member(v, "role").t = "atom"
    /\ HasMember(v, "content") /\ Member(v, "content").t = "str"

IsMessageArray(val) ==
    val.t = "arr" /\ \A i \in 1..Len(val.a) : IsMessage(val.a[i])

RECURSIVE MessagesFrom(_, _)
MessagesFrom(a, acc) ==
    IF a = <<>> THEN acc
    ELSE MessagesFrom(Tail(a),
             Append(acc, [role |-> Member(Head(a), "role").s,
                          content |-> Member(Head(a), "content").s]))

MessagesOf(val) == MessagesFrom(val.a, <<>>)

getApiKey(store, fault) ==
    IF fault = "denied" THEN NoItem ELSE store.apiKey

\* saveApiKey rethrows: thrown = TRUE
saveApiKey(store, fault, key) ==
    IF fault # "none" THEN [thrown |-> TRUE, store |-> store]
    ELSE [thrown |-> FALSE, store |-> [store EXCEPT !.apiKey = Item(key)]]

removeApiKey(store, fault) ==
    IF fault = "denied" THEN store ELSE [store EXCEPT !.apiKey = NoItem]

\* a saveHistory that runs before the push: it writes the array without its
\* last message
saveHistoryBeforePush(store, fault, history) ==
    IF fault # "none" \/ history = <<>> THEN store
    ELSE [store EXCEPT !.chatHistory =
             Item(JSONStringify(SubSeq(history, 1, Len(history) - 1)))]

\* a saveHistory that writes nothing
saveHistorySkip(store, fault, history) == store

saveHistory(store, fault, history) ==
    IF fault # "none" THEN store
    ELSE [store EXCEPT !.chatHistory = Item(JSONStringify(history))]

\* a clearHistory that leaves the record in place
clearHistoryKeep(store, fault) == store

clearHistory(store, fault) ==
    IF fault = "denied" THEN store ELSE [store EXCEPT !.chatHistory = NoItem]

\* a getHistory without its try/catch: the exception of a refused getItem
\* leaves it (array = FALSE: the caller does not get an array and throws)
getHistoryNoCatch(store, fault) ==
    LET Of(p) ==
            IF p.ok /\ IsMessageArray(p.val)
            THEN [array |-> TRUE, history |-> MessagesOf(p.val), store |-> store]
            ELSE [array |-> FALSE, history |-> <<>>, store |-> store]
    IN  IF fault = "denied"
        THEN [array |-> FALSE, history |-> <<>>, store |-> store]
        ELSE IF ~store.chatHistory.present \/ store.chatHistory.value = <<>>
        THEN [array |-> TRUE, history |-> <<>>, store |-> store]
        ELSE Of(JSONParse(store.chatHistory.value))

\* getHistory: [array, history, store]; array = FALSE when JSON.parse gave a
\* value that is no array of messages (the caller's forEach then throws)
getHistory(store, fault) ==
    LET Of(p) ==
            IF ~p.ok
            THEN [array |-> TRUE, history |-> <<>>, store |-> clearHistory(store, fault)]
            ELSE IF IsMessageArray(p.val)
            THEN [array |-> TRUE, history |-> MessagesOf(p.val), store |-> store]
            ELSE [array |-> FALSE, history |-> <<>>, store |-> store]
    IN  IF fault = "denied"
        THEN [array |-> TRUE, history |-> <<>>, store |-> clearHistory(store, fault)]
        ELSE IF ~store.chatHistory.present \/ store.chatHistory.value = <<>>
        THEN [array |-> TRUE, history |-> <<>>, store |-> store]
        ELSE Of(JSONParse(store.chatHistory.value))

----------------------------------------------------------------------------
(* Bounds and the inputs of the environment *)

\* handleSendMessage invocations in one behaviour
MaxTasks == 2
\* lines of a response body
MaxLines == 2
\* the size of the chunks a body is cut into when several requests run
ChunkSize == 16

Tasks == 1..MaxTasks

\* what the user may have typed into #chat-input and #api-key-input
ChatInputs == {<<SP>>, <<SP, "a", SP>>, <<"b", LF, Q>>}
KeyInputs == {<<SP>>, <<SP, "k">>}

Payload(fields) ==
    <<"{", "choices:", "[", "{", "delta:", "{">> \o fields \o <<"}", "}", "]", "}">>

\* data: {"choices":[{"delta":{"content":"\n"}}]}
LineNL == DATA_PREFIX \o Payload(<<"content:", Q, BS, "n", Q>>)
\* data: {"choices":[{"delta":{"content":"é","reasoning_content":"\n"}}]}
LineRC == DATA_PREFIX
          \o Payload(<<"content:", Q, "C3", "A9", Q, ",",
                       "reasoning_content:", Q, BS, "n", Q>>)
\* data: {"choices":[{"delta":
LineBad == DATA_PREFIX \o <<"{", "choices:", "[", "{", "delta:">>
\* data: [DONE] with a carriage return
LineDone == DATA_PREFIX \o DONE_MESSAGE \o <<CR>>
LineBlank == <<>>
LineOther == <<"event:", "a">>

Lines == {LineNL, LineRC, LineBad, LineDone, LineBlank, LineOther}

\* the members a delta may have: none, '', a text, a line break or null
ContentFields ==
    {<<>>} \cup {<<"content:">> \o v :
                   v \in {<<Q, Q>>, <<Q, "a", Q>>, <<Q, BS, "n", Q>>, <<"null">>}}
ReasoningFields ==
    {<<>>} \cup {<<"reasoning_content:">> \o v :
                   v \in {<<Q, Q>>, <<Q, "r", Q>>, <<"null">>}}

JoinFields(a, b) ==
    IF a = <<>> THEN b ELSE IF b = <<>> THEN a ELSE a \o <<",">> \o b

\* payloads with a delta, its members in either order
DeltaPayloads ==
    {Payload(JoinFields(c, r)) : c \in ContentFields, r \in ReasoningFields}
    \cup {Payload(JoinFields(r, c)) : c \in ContentFields, r \in ReasoningFields}

\* {"choices":[{}]}, {"choices":[]} and {"choices":[{"delta":null}]}
NoDeltaPayloads ==
    {<<"{", "choices:", "[", "{", "}", "]", "}">>,
     <<"{", "choices:", "[", "]", "}">>,
     <<"{", "choices:", "[", "{", "delta:", "null", "}", "]", "}">>}

\* bodies of one data line
LineBodies ==
    {DATA_PREFIX \o p \o <<LF>> : p \in DeltaPayloads \cup NoDeltaPayloads}

\* bodies of n lines, each ended by LF
RECURSIVE Bodies(_)
Bodies(n) ==
    IF n = 0 THEN {<<>>}
    ELSE {b \o l \o <<LF>> : b \in Bodies(n - 1), l \in Lines}

\* a line whose payload fails to parse between two lines that give content
Sandwiches ==
    {a \o <<LF>> \o LineBad \o <<LF>> \o b \o <<LF>> : a, b \in {LineNL, LineRC}}

\* what a server may send: any MaxLines lines, or a sandwich (it may end the
\* body earlier, see ReadDone)
Streams == Bodies(MaxLines) \cup Sandwiches

\* the body served when several requests run
ShortStreams == {LineRC \o <<LF>> \o LineDone \o <<LF>>}

ErrorMessages == {"401", "API Error: 500", "Failed to fetch"}

\* what localStorage may hold when the page is opened
InitialRecords ==
    {NoItem,
     Item(JSONStringify(<<[role |-> "user", content |-> <<"a">>],
                          [role |-> "assistant", content |-> <<LF, "a">>]>>)),
     Item(<<"[", "{", "role:", "user", ",", "content:", Q, "a">>),
     Item(<<"null">>)}

InitialKeys == {NoItem, Item(<<"k">>)}

\* localStorage works, refuses to write (QuotaExceededError of setItem), or
\* refuses every access (SecurityError)
FaultModes == {"none", "quota", "denied"}

----------------------------------------------------------------------------
(* State *)

VARIABLES
    ctrl,         \* "unloaded", "ready" (constructor ran) or "crashed" (it threw)
    chatHistory,  \* ChatController.chatHistory
    store,        \* localStorage: [apiKey, chatHistory]
    fault,        \* the failure mode of localStorage
    tasks,        \* the running handleSendMessage invocations and their locals
    event         \* the handler step that ran last, with what it saw and passed on

vars == <<ctrl, chatHistory, store, fault, tasks, event>>

\* an invocation that has not started, or has returned: it has no locals
NoTask ==
    [pc |-> "unused", content |-> <<>>, apiKey |-> <<>>,
     messages |-> <<>>, stream |-> <<>>, pos |-> 0, sp |-> NewStream,
     frags |-> <<>>, onChunkLog |-> <<>>]

Returned == [NoTask EXCEPT !.pc = "done"]

NoEvent ==
    [op |-> "none", t |-> 0, outcome |-> "none", content |-> <<>>, apiKey |-> <<>>,
     messages |-> <<>>, stream |-> <<>>, result |-> <<>>, frags |-> <<>>,
     onChunkLog |-> <<>>, carried |-> FALSE, record |-> NoItem]

\* the step `op` of invocation t, with the locals of the invocation
TaskEvent(op, t, task) ==
    [NoEvent EXCEPT !.op = op, !.t = t, !.content = task.content,
                    !.apiKey = task.apiKey, !.messages = task.messages]

InFlight == {t \in Tasks : tasks[t].pc \in {"fetching", "streaming"}}

\* the page is opened on a browser profile with some stored data
Init ==
    /\ ctrl = "unloaded"
    /\ chatHistory = <<>>
    /\ store \in [apiKey : InitialKeys, chatHistory : InitialRecords]
    /\ fault = "none"
    /\ tasks = [t \in Tasks |-> NoTask]
    /\ event = NoEvent

\* a page with a stored key and no history, ready for its first message
InitStream ==
    /\ ctrl = "ready"
    /\ chatHistory = <<>>
    /\ store = [apiKey |-> Item(<<"k">>), chatHistory |-> NoItem]
    /\ fault = "none"
    /\ tasks = [t \in Tasks |-> NoTask]
    /\ event = NoEvent

----------------------------------------------------------------------------
(* ChatController *)

Min(a, b) == IF a < b THEN a ELSE b

UserMessage(content) == [role |-> "user", content |-> content]
AssistantMessage(content) == [role |-> "assistant", content |-> content]
SystemMessage == [role |-> "system", content |-> SYSTEM_PROMPT]

\* a push that drops what the array held
pushReplacing(array, item) == <<item>>

\* Array.prototype.push on this.chatHistory
push(array, item) == Append(array, item)

\* a message list that carries the newest message only
BuildMessagesLastOnly(history) ==
    <<SystemMessage>> \o SubSeq(history, Len(history), Len(history))

\* a message list without the system message
BuildMessagesNoSystem(history) == history

\* const messages = [{ role: 'system', ... }, ...this.chatHistory]
BuildMessages(history) == <<SystemMessage>> \o history

\* a catch block that removes the key whatever the error is
CatchErrorAlways(message, st, flt) == removeApiKey(st, flt)

\* the catch block of handleSendMessage: only the message '401' removes the key
CatchError(message, st, flt) ==
    IF message = "401" THEN removeApiKey(st, flt) ELSE st

Outcome(message) == IF message = "401" THEN "auth" ELSE "error"

\* new ChatController(): init() -> loadHistory(); a page that is opened again
\* leaves the requests of the page before it behind
PageLoad ==
    \E r \in {getHistory(store, fault)} :
        /\ ctrl' = IF r.array THEN "ready" ELSE "crashed"
        /\ chatHistory' = r.history
        /\ store' = r.store
        /\ tasks' = [t \in Tasks |->
                        IF t \in InFlight THEN Returned ELSE tasks[t]]
        /\ event' = [NoEvent EXCEPT !.op = "load", !.record = store.chatHistory]
        /\ UNCHANGED fault

handleSaveApiKey(input) ==
    LET key == Trim(input) IN
    /\ ctrl = "ready"
    /\ store' = IF key # <<>> THEN saveApiKey(store, fault, key).store ELSE store
    /\ event' = [NoEvent EXCEPT !.op = "saveKey"]
    /\ UNCHANGED <<ctrl, chatHistory, fault, tasks>>

\* the confirmed dialog of handleClearApiKey
handleClearApiKey ==
    /\ ctrl = "ready"
    /\ store' = removeApiKey(store, fault)
    /\ event' = [NoEvent EXCEPT !.op = "clearKey"]
    /\ UNCHANGED <<ctrl, chatHistory, fault, tasks>>

\* the confirmed dialog of handleClearHistory
handleClearHistory ==
    /\ ctrl = "ready"
    /\ chatHistory' = <<>>
    /\ store' = clearHistory(store, fault)
    /\ event' = [NoEvent EXCEPT !.op = "clearHistory"]
    /\ UNCHANGED <<ctrl, fault, tasks>>

\* handleSendMessage up to its first await, as invocation t
handleSendMessage(t, input) ==
    /\ ctrl = "ready"
    /\ tasks[t].pc = "unused"
    /\ \A u \in Tasks : u < t => tasks[u].pc # "unused"
    /\ \E content \in {Trim(input)} :
         IF content = <<>>
         THEN /\ event' = [NoEvent EXCEPT !.op = "ignored"]
              /\ UNCHANGED <<chatHistory, store, tasks>>
         ELSE \E history \in {push(chatHistory, UserMessage(content))} :
              \E saved \in {saveHistory(store, fault, history)} :
              \E apiKey \in {getApiKey(saved, fault)} :
                /\ chatHistory' = history
                /\ store' = saved
                /\ IF ~apiKey.present \/ apiKey.value = <<>>
                   THEN \* throw new Error('No API key found'), caught at the end
                        /\ tasks' = [tasks EXCEPT ![t] = Returned]
                        /\ event' = [NoEvent EXCEPT
                                        !.op = "submit", !.t = t, !.content = content,
                                        !.outcome = Outcome("No API key found")]
                   ELSE \E started \in
                            {[NoTask EXCEPT !.pc = "fetching", !.content = content,
                                            !.apiKey = apiKey.value,
                                            !.messages = BuildMessages(history)]} :
                        /\ tasks' = [tasks EXCEPT ![t] = started]
                        /\ event' = TaskEvent("submit", t, started)
    /\ UNCHANGED <<ctrl, fault>>

\* apiClient.sendMessage resolves with response.body.getReader()
FetchOk(t, body) ==
    /\ tasks[t].pc = "fetching"
    /\ tasks' = [tasks EXCEPT ![t] =
                    [@ EXCEPT !.pc = "streaming", !.stream = body, !.pos = 0,
                              !.sp = NewStream]]
    /\ event' = TaskEvent("response", t, tasks[t])
    /\ UNCHANGED <<ctrl, chatHistory, store, fault>>

\* apiClient.sendMessage rejects: a 401, another status, or fetch itself failed
FetchFail(t, message) ==
    /\ tasks[t].pc = "fetching"
    /\ tasks' = [tasks EXCEPT ![t] = Returned]
    /\ store' = CatchError(message, store, fault)
    /\ event' = [TaskEvent("fetchFailed", t, tasks[t]) EXCEPT !.outcome = Outcome(message)]
    /\ UNCHANGED <<ctrl, chatHistory, fault>>

\* an onChunk that saves the partial text as an assistant message
onChunkSaving(st, flt, history, fullResponse) ==
    saveHistory(st, flt, Append(history, AssistantMessage(fullResponse)))

\* the onChunk callback of handleSendMessage: it updates the rendered message
\* and scrolls, and leaves localStorage as it is
onChunk(st, flt, history, fullResponse) == st

\* reader.read() resolves with the next n bytes of the body
ReadChunk(t, n) ==
    /\ tasks[t].pc = "streaming"
    /\ n >= 1
    /\ tasks[t].pos + n <= Len(tasks[t].stream)
    /\ \E task \in {tasks[t]} :
       \E r \in {ProcessChunk(task.sp, SubSeq(task.stream, task.pos + 1, task.pos + n))} :
         /\ tasks' = [tasks EXCEPT ![t] =
                IF r.thrown
                THEN \* an exception of the loop body leaves processStream and is caught
                     Returned
                ELSE [task EXCEPT !.pos = @ + n, !.sp = r.sp,
                                  !.frags = @ \o r.frags,
                                  !.onChunkLog = IF r.onChunk
                                                 THEN Append(@, r.sp.fullResponse)
                                                 ELSE @]]
         /\ store' = IF r.thrown THEN CatchError("exception", store, fault)
                     ELSE IF r.onChunk
                     THEN onChunk(store, fault, chatHistory, r.sp.fullResponse)
                     ELSE store
         /\ event' = IF r.thrown
                     THEN [TaskEvent("chunk", t, task) EXCEPT
                              !.outcome = Outcome("exception"),
                              !.stream = SubSeq(task.stream, 1, task.pos + n)]
                     ELSE \* carried: the chunk was appended to a carried-over buffer
                          [TaskEvent("chunk", t, task) EXCEPT
                              !.carried = task.sp.buffer # <<>>]
    /\ UNCHANGED <<ctrl, chatHistory, fault>>

\* a loop that does not leave on { done: true } and reads again
ReadDoneIgnored(t) ==
    /\ tasks[t].pc = "streaming"
    /\ UNCHANGED vars

\* reader.read() resolves with { done: true }, the server having ended the body
\* after the bytes read so far: onComplete(fullResponse)
ReadDone(t) ==
    LET task == tasks[t]
        history == push(chatHistory, AssistantMessage(task.sp.fullResponse))
    IN
    /\ task.pc = "streaming"
    /\ chatHistory' = history
    /\ store' = saveHistory(store, fault, history)
    /\ tasks' = [tasks EXCEPT ![t] = Returned]
    /\ event' = [TaskEvent("complete", t, task) EXCEPT
                    !.outcome = "complete",
                    !.stream = SubSeq(task.stream, 1, task.pos),
                    !.result = task.sp.fullResponse,
                    !.frags = task.frags,
                    !.onChunkLog = task.onChunkLog]
    /\ UNCHANGED <<ctrl, fault>>

\* a processStream whose catch block calls onComplete before it rethrows
ReadFailCompleting(t) ==
    LET task == tasks[t]
        history == Append(chatHistory, AssistantMessage(task.sp.fullResponse))
    IN
    /\ task.pc = "streaming"
    /\ chatHistory' = history
    /\ store' = CatchError("network error", saveHistory(store, fault, history), fault)
    /\ tasks' = [tasks EXCEPT ![t] = Returned]
    /\ event' = [TaskEvent("readFailed", t, task) EXCEPT
                    !.outcome = Outcome("network error"),
                    !.onChunkLog = task.onChunkLog]
    /\ UNCHANGED <<ctrl, fault>>

\* reader.read() rejects in the middle of the body
ReadFail(t) ==
    /\ tasks[t].pc = "streaming"
    /\ tasks' = [tasks EXCEPT ![t] = Returned]
    /\ store' = CatchError("network error", store, fault)
    /\ event' = [TaskEvent("readFailed", t, tasks[t]) EXCEPT
                    !.outcome = Outcome("network error"),
                    !.onChunkLog = tasks[t].onChunkLog]
    /\ UNCHANGED <<ctrl, chatHistory, fault>>

\* the sizes of the next chunk when several requests run: a piece of
\* ChunkSize bytes or all that is left
ChunkSizes(t) ==
    LET left == Len(tasks[t].stream) - tasks[t].pos IN
    {Min(ChunkSize, left), left}

----------------------------------------------------------------------------
(* Specifications *)

\* the whole controller: any handler at any time, requests overlapping,
\* localStorage working
Next ==
    \/ PageLoad
    \/ \E input \in KeyInputs : handleSaveApiKey(input)
    \/ handleClearApiKey
    \/ handleClearHistory
    \/ \E t \in Tasks, input \in ChatInputs : handleSendMessage(t, input)
    \/ \E t \in Tasks, body \in ShortStreams : FetchOk(t, body)
    \/ \E t \in Tasks, message \in ErrorMessages : FetchFail(t, message)
    \/ \E t \in Tasks : \E n \in ChunkSizes(t) : ReadChunk(t, n)
    \/ \E t \in Tasks : ReadDone(t)
    \/ \E t \in Tasks : ReadFail(t)

Spec == Init /\ [][Next]_vars

\* the promises settle: a pending fetch is answered unless it fails first, and
\* a body that is being read ends unless a read fails first
Settles ==
    \A t \in Tasks :
        /\ WF_vars(\E body \in ShortStreams : FetchOk(t, body))
        /\ WF_vars(ReadDone(t))

\* the whole controller as in Next, the user typing one text and one key
NextLive ==
    \/ PageLoad
    \/ handleSaveApiKey(<<SP, "k">>)
    \/ handleClearApiKey
    \/ handleClearHistory
    \/ \E t \in Tasks : handleSendMessage(t, <<SP, "a", SP>>)
    \/ \E t \in Tasks, body \in ShortStreams : FetchOk(t, body)
    \/ \E t \in Tasks, message \in ErrorMessages : FetchFail(t, message)
    \/ \E t \in Tasks : \E n \in ChunkSizes(t) : ReadChunk(t, n)
    \/ \E t \in Tasks : ReadDone(t)
    \/ \E t \in Tasks : ReadFail(t)

SpecLive == InitStream /\ [][NextLive]_vars /\ Settles

\* localStorage starts or stops failing
StorageFault(mode) ==
    /\ fault # mode
    /\ fault' = mode
    /\ event' = [NoEvent EXCEPT !.op = "fault"]
    /\ UNCHANGED <<ctrl, chatHistory, store, tasks>>

\* the whole controller as in NextLive, localStorage failing at any time
NextFault ==
    \/ NextLive
    \/ \E mode \in FaultModes : StorageFault(mode)

SpecFault == InitStream /\ [][NextFault]_vars

\* one message and its response: any body, cut into chunks anywhere
NextStream ==
    \/ handleSendMessage(1, <<SP, "a", SP>>)
    \/ \E body \in Streams : FetchOk(1, body)
    \/ \E n \in 1..(Len(tasks[1].stream) - tasks[1].pos) : ReadChunk(1, n)
    \/ ReadDone(1)
    \/ ReadFail(1)

SpecStream == InitStream /\ [][NextStream]_vars

\* a request whose response has begun: one data line of any payload
InitLine ==
    /\ ctrl = "ready"
    /\ chatHistory = <<UserMessage(<<"a">>)>>
    /\ store = [apiKey |-> Item(<<"k">>),
                chatHistory |-> Item(JSONStringify(<<UserMessage(<<"a">>)>>))]
    /\ fault = "none"
    /\ \E body \in LineBodies :
          tasks = [t \in Tasks |->
                     IF t = 1
                     THEN [NoTask EXCEPT !.pc = "streaming", !.content = <<"a">>,
                                         !.apiKey = <<"k">>,
                                         !.messages = <<SystemMessage,
                                                        UserMessage(<<"a">>)>>,
                                         !.stream = body]
                     ELSE NoTask]
    /\ event = NoEvent

\* the line arrives whole, and the body ends
NextLine ==
    \/ ReadChunk(1, Len(tasks[1].stream))
    \/ ReadDone(1)

SpecLine == InitLine /\ [][NextLine]_vars

----------------------------------------------------------------------------
(* Properties *)

Range(s) == {s[i] : i \in DOMAIN s}
Last(s) == s[Len(s)]

\* s is the end of whole
IsSuffix(s, whole) ==
    Len(s) <= Len(whole) /\ SubSeq(whole, Len(whole) - Len(s) + 1, Len(whole)) = s

RECURSIVE Concat(_)
Concat(texts) == IF texts = <<>> THEN <<>> ELSE Head(texts) \o Concat(Tail(texts))

\* the history a load would read back from localStorage
Persisted == getHistory(store, fault).history

\* the lines of a body that are ended by a newline, as one decoding of the
\* whole body gives them
LinesOf(bytes) ==
    LET Of(pieces) == SubSeq(pieces, 1, Len(pieces) - 1)
    IN  Of(Split(TextDecode(<<>>, bytes).text))

\* what each line gives when it is interpreted whole
Fragments(lines) == [i \in 1..Len(lines) |-> parseSSELine(lines[i]).text]

\* a data line that is not the sentinel
IsPayloadLine(line) ==
    StartsWith(Trim(line), DATA_PREFIX) /\ Trim(line) # DATA_PREFIX \o DONE_MESSAGE

PayloadOf(line) == ParsePayload(Slice(Trim(line), Len(DATA_PREFIX)))

\* a well-formed stream: every line is ended by a newline and is blank, the
\* sentinel, or a data line whose payload parses
WellFormed(bytes) ==
    /\ bytes # <<>> /\ Last(bytes) = LF
    /\ \A l \in Range(LinesOf(bytes)) :
          \/ Trim(l) = <<>>
          \/ Trim(l) = DATA_PREFIX \o DONE_MESSAGE
          \/ IsPayloadLine(l) /\ ~PayloadOf(l).thrown

\* the text onComplete receives when the body arrives as one chunk
OneChunk(bytes) == ProcessChunk(NewStream, bytes).sp.fullResponse

\* C1: a submission made while a request is in flight is rejected, so at
\* every reachable state at most one request is in flight.
C1_AtMostOneInFlight == Cardinality(InFlight) <= 1

\* C2: for a well-formed stream, whatever the chunks it arrived in, onComplete
\* receives the text it receives when the stream arrives as one chunk.
C2_ChunkBoundaryInvariance ==
    (event.op = "complete" /\ WellFormed(event.stream))
        => event.result = OneChunk(event.stream)

\* C3: after every chunk the fragments produced so far are those of the lines
\* whose newline has arrived, each equal to the fragment of the unsplit line;
\* a chunk that brings no newline produces no fragment, calls no onChunk and
\* leaves the accumulated text as it was.
C3_SplitLineWaitsForNewline ==
    [][\A t \in Tasks :
          (/\ tasks[t].pc = "streaming"
           /\ tasks'[t].pc = "streaming"
           /\ tasks'[t].pos > tasks[t].pos)
          => /\ tasks'[t].frags =
                   Fragments(LinesOf(SubSeq(tasks[t].stream, 1, tasks'[t].pos)))
             /\ LF \notin Range(SubSeq(tasks[t].stream, tasks[t].pos + 1, tasks'[t].pos))
                  => /\ tasks'[t].frags = tasks[t].frags
                     /\ tasks'[t].onChunkLog = tasks[t].onChunkLog
                     /\ tasks'[t].sp.fullResponse = tasks[t].sp.fullResponse]_vars

\* a chunk has completed the first line, a data line whose beginning was
\* carried over, and the line gave its one fragment and the first onChunk call
C3_Witness ==
    /\ event.op = "chunk"
    /\ event.carried
    /\ tasks[1].pc = "streaming"
    /\ Len(tasks[1].frags) = 1
    /\ tasks[1].frags[1] # <<>>
    /\ tasks[1].sp.buffer = <<>>
    /\ Len(tasks[1].onChunkLog) = 1

\* C4: no chunk ends the stream with an exception; at completion every line
\* whose payload parses has given its fragment, every line whose payload
\* fails to parse has given the empty fragment, and the accumulated text is
\* made of these fragments only.
C4_MalformedLineSkipped ==
    /\ event.op = "chunk" => event.outcome = "none"
    /\ event.op = "complete" =>
          \E lines \in {LinesOf(event.stream)} :
             /\ Len(event.frags) = Len(lines)
             /\ \A i \in 1..Len(lines) :
                   IsPayloadLine(lines[i]) =>
                      \E p \in {PayloadOf(lines[i])} :
                         event.frags[i] = IF p.thrown THEN <<>> ELSE p.text
             /\ IsSuffix(event.result, Concat(event.frags))

\* a stream completed whose second line is malformed, between two lines that
\* gave non-empty fragments
C4_Witness ==
    /\ event.op = "complete"
    /\ \E lines \in {LinesOf(event.stream)} :
          /\ Len(lines) = 3
          /\ IsPayloadLine(lines[2]) /\ PayloadOf(lines[2]).thrown
          /\ Len(event.frags) = 3
          /\ event.frags[1] # <<>> /\ event.frags[2] = <<>> /\ event.frags[3] # <<>>
          /\ event.result # <<>>

\* C5: after a 401 the stored credential is absent and the user message of
\* the turn is still in the in-memory and in the persisted history.
C5_AuthFailureKeepsUserMessage ==
    (event.op = "fetchFailed" /\ event.outcome = "auth")
        => /\ ~store.apiKey.present
           /\ UserMessage(event.content) \in Range(chatHistory)
           /\ UserMessage(event.content) \in Range(Persisted)

\* C6: a failure that is no 401 leaves the history, in memory and persisted,
\* as the history before the turn plus the turn's user message, and leaves
\* the stored credential as it was.
C6_OtherFailureKeepsHistory ==
    [][(event'.op \in {"fetchFailed", "readFailed"} /\ event'.outcome = "error")
          => /\ chatHistory' = Tail(event'.messages)
             /\ getHistory(store', fault').history = Tail(event'.messages)
             /\ store'.apiKey = store.apiKey]_vars

\* C7: when a stream completes the last message of the history is the
\* assistant message holding the accumulated text, the persisted history is
\* the history, and no request is in flight.
C7_CompletionAppendsAndIdles ==
    event.op = "complete"
        => /\ chatHistory # <<>>
           /\ Last(chatHistory) = AssistantMessage(event.result)
           /\ Persisted = chatHistory
           /\ InFlight = {}

\* C8: when the request of an accepted submission is issued, the user message
\* is the last message of the history, the persisted history is that history,
\* and the message list of the request ends with the user message.
C8_DurabilityBeforeSend ==
    \A t \in Tasks :
        (event.op = "submit" /\ event.t = t /\ tasks[t].pc = "fetching")
            => /\ store.chatHistory.present
               /\ Persisted = chatHistory
               /\ Last(Persisted) = UserMessage(tasks[t].content)
               /\ Last(tasks[t].messages) = UserMessage(tasks[t].content)

\* a request has just been issued on top of an earlier conversation
C8_Witness ==
    /\ event.op = "submit"
    /\ event.t \in Tasks
    /\ tasks[event.t].pc = "fetching"
    /\ Len(chatHistory) > 1
    /\ Last(Persisted) = UserMessage(event.content)

\* C9: a submission made while no credential is stored appends nothing to the
\* in-memory or persisted history and sends no request.
C9_NoCredentialNoAppend ==
    [][(~store.apiKey.present /\ event'.op = "submit")
          => /\ chatHistory' = chatHistory
             /\ store' = store
             /\ InFlight' = InFlight]_vars

\* the record is there and JSON.parse throws on it
Undecodable(record) ==
    record.present /\ record.value # <<>> /\ ~JSONParse(record.value).ok

C11_HistoryRoundTrip ==
    event.op \in {"submit", "complete"}
        => \E r \in {getHistory(store, fault)} :
              /\ r.array
              /\ Len(r.history) = Len(chatHistory)
              /\ \A i \in 1..Len(chatHistory) :
                    /\ r.history[i].role = chatHistory[i].role
                    /\ r.history[i].content = chatHistory[i].content

\* a history of several messages, one holding a quote and a line break, has
\* been saved and reads back
C11_Witness ==
    /\ event.op = "submit"
    /\ Len(chatHistory) >= 3
    /\ \E i \in 1..Len(chatHistory) : {Q, LF} \subseteq Range(chatHistory[i].content)
    /\ store.chatHistory = Item(JSONStringify(chatHistory))
    /\ Persisted = chatHistory

\* C12: a step that consumes a chunk, with or without a partial update,
\* leaves the persisted and the in-memory history as they are; the step that
\* completes the stream writes the history extended by the one assistant
\* message that holds the final accumulated text.
C12_PartialTextNotPersisted ==
    [][/\ event'.op = "chunk"
            => /\ store' = store
               /\ chatHistory' = chatHistory
       /\ event'.op = "complete"
            => store'.chatHistory =
                  Item(JSONStringify(Append(chatHistory,
                                            AssistantMessage(event'.result))))]_vars

\* a chunk has made a partial update with some text, and the persisted
\* history still ends with the user message
C12_Witness ==
    /\ event.op = "chunk"
    /\ tasks[1].pc = "streaming"
    /\ tasks[1].onChunkLog # <<>>
    /\ tasks[1].sp.fullResponse # <<>>
    /\ Persisted = <<UserMessage(tasks[1].content)>>

\* the text of member k of a delta: '' when the member is missing or null
FieldText(delta, k) ==
    IF HasMember(delta, k) /\ Member(delta, k).t = "str" THEN Member(delta, k).s
    ELSE <<>>

\* the delta of the payload of a one-line body, [t |-> "null"] when it has none
DeltaOf(body) ==
    LET Of(choices) ==
            IF choices.a # <<>> /\ HasMember(choices.a[1], "delta")
            THEN Member(choices.a[1], "delta")
            ELSE [t |-> "null"]
    IN  Of(Member(JSONParse(Slice(SubSeq(body, 1, Len(body) - 1),
                                  Len(DATA_PREFIX))).val, "choices"))

\* C13: the fragment of a valid payload is the text of reasoning_content
\* followed by the text of content, a missing member giving '', and the
\* fragment of a payload without a delta is ''.
C13_FragmentIsReasoningThenContent ==
    (event.op = "chunk" /\ tasks[1].pc = "streaming")
        => \E delta \in {DeltaOf(tasks[1].stream)} :
              /\ Len(tasks[1].frags) = 1
              /\ tasks[1].frags[1] =
                    IF delta.t = "obj"
                    THEN FieldText(delta, "reasoning_content")
                         \o FieldText(delta, "content")
                    ELSE <<>>

\* a payload whose delta names content before reasoning_content has given
\* the reasoning followed by the content
C13_Witness ==
    /\ event.op = "chunk"
    /\ tasks[1].pc = "streaming"
    /\ tasks[1].stream = DATA_PREFIX
          \o Payload(<<"content:", Q, "a", Q, ",", "reasoning_content:", Q, "r", Q>>)
          \o <<LF>>
    /\ tasks[1].frags = << <<"r", "a">> >>

\* a line that is blank, the sentinel, or does not start with the data prefix
\* (a line is classified without the white space around it)
IsDiscardedLine(line) ==
    \/ Trim(line) = <<>>
    \/ Trim(line) = DATA_PREFIX \o DONE_MESSAGE
    \/ ~StartsWith(Trim(line), DATA_PREFIX)

\* the texts of the payloads of the data lines among `lines`, one after the
\* other, every other line left out
RECURSIVE DataText(_)
DataText(lines) ==
    IF lines = <<>> THEN <<>>
    ELSE (IF IsDiscardedLine(Head(lines)) \/ PayloadOf(Head(lines)).thrown
          THEN <<>>
          ELSE PayloadOf(Head(lines)).text) \o DataText(Tail(lines))

\* C14: a blank line, the sentinel line and a line that does not start with
\* the data prefix give the empty fragment, and the accumulated text, which
\* is what the latest partial update carried, is made of the payloads of the
\* data lines only, while the stream runs and when it completes.
C14_DiscardedLinesLeaveNoText ==
    /\ tasks[1].pc = "streaming" =>
          \E lines \in {LinesOf(SubSeq(tasks[1].stream, 1, tasks[1].pos))} :
             /\ \A i \in 1..Len(lines) :
                   IsDiscardedLine(lines[i]) => tasks[1].frags[i] = <<>>
             /\ IsSuffix(tasks[1].sp.fullResponse, DataText(lines))
             /\ tasks[1].onChunkLog # <<>>
                   => Last(tasks[1].onChunkLog) = tasks[1].sp.fullResponse
    /\ event.op = "complete" =>
          \E lines \in {LinesOf(event.stream)} :
             /\ \A i \in 1..Len(lines) :
                   IsDiscardedLine(lines[i]) => event.frags[i] = <<>>
             /\ IsSuffix(event.result, DataText(lines))

\* a stream of a line of another shape and a data line has completed with
\* the text of the data line
C14_Witness ==
    /\ event.op = "complete"
    /\ event.stream = LineOther \o <<LF>> \o LineRC \o <<LF>>
    /\ event.frags = << <<>>, <<LF, "é">> >>
    /\ event.result = <<"é">>

\* C15: when the fetches and the reads settle, every request in flight is
\* followed by a state in which no request is in flight and the controller
\* takes submissions.
C15_EverySubmissionReturnsToIdle ==
    \A t \in Tasks :
        (tasks[t].pc \in {"fetching", "streaming"})
            ~> (InFlight = {} /\ ctrl = "ready")

\* the second submission was made after the first turn had returned, and
\* its request has been issued
C15_Witness ==
    /\ event.op = "submit"
    /\ event.t = 2
    /\ tasks[1].pc = "done"
    /\ tasks[2].pc = "fetching"

\* C16: the message list of every request begins with the system message
\* and holds no other message of role system, and neither the in-memory
\* history nor the history just written holds a message of role system.
C16_SystemMessageOnlyFirst ==
    /\ \A t \in InFlight :
          /\ tasks[t].messages # <<>>
          /\ Head(tasks[t].messages) = [role |-> "system", content |-> SYSTEM_PROMPT]
          /\ \A i \in 2..Len(tasks[t].messages) : tasks[t].messages[i].role # "system"
    /\ \A i \in 1..Len(chatHistory) : chatHistory[i].role # "system"
    /\ event.op \in {"submit", "complete"}
          => \A m \in Range(Persisted) : m.role # "system"

\* a request has been issued on top of an earlier conversation: its list is
\* the system message and the three messages of the history
C16_Witness ==
    /\ event.op = "submit"
    /\ event.t \in InFlight
    /\ Len(tasks[event.t].messages) = 4
    /\ Head(tasks[event.t].messages).role = "system"
    /\ Len(Persisted) = 3

\* C17: a submission is either ignored, and then the history, the store
\* (persisted history and credential) and the requests are as before, or its
\* text holds a character that is no white space.
C17_BlankSubmissionIsNoOp ==
    [][/\ event'.op = "ignored"
            => /\ chatHistory' = chatHistory
               /\ store' = store
               /\ tasks' = tasks
       /\ event'.op = "submit"
            => \E i \in 1..Len(event'.content) : ~IsSpace(event'.content[i])]_vars

\* a submission of white space has been ignored on a page that holds a
\* conversation and a key
C17_Witness ==
    /\ event.op = "ignored"
    /\ chatHistory # <<>>
    /\ store.apiKey.present
    /\ store.chatHistory.present
    /\ InFlight = {}

\* the fragments one after the other, the first non-empty one without its
\* leading line breaks
RECURSIVE StripFirstFragment(_)
StripFirstFragment(frags) ==
    IF frags = <<>> THEN <<>>
    ELSE IF Head(frags) = <<>> THEN StripFirstFragment(Tail(frags))
    ELSE StripLeadingNewlines(Head(frags)) \o Concat(Tail(frags))

\* C18: the text a stream completes with is its first non-empty fragment
\* without its leading line breaks, followed by the later fragments as they
\* are, however the fragments were grouped into chunks.
C18_StripOnlyFirstFragment ==
    event.op = "complete" => event.result = StripFirstFragment(event.frags)

\* what is left of a body after its last newline
LastPiece(bytes) ==
    LET Of(pieces) == pieces[Len(pieces)]
    IN  Of(Split(TextDecode(<<>>, bytes).text))

\* C19: when a stream completes and the bytes after its last newline are a
\* data line whose payload parses, the text it completes with ends with the
\* fragment of that line (without its leading line breaks where it is the
\* first text of the stream).
C19_FinalLineFlushed ==
    (/\ event.op = "complete"
     /\ IsPayloadLine(LastPiece(event.stream))
     /\ ~PayloadOf(LastPiece(event.stream)).thrown)
        => IsSuffix(StripLeadingNewlines(PayloadOf(LastPiece(event.stream)).text),
                    event.result)

\* s is the beginning of whole
IsPrefix(s, whole) == Len(s) <= Len(whole) /\ SubSeq(whole, 1, Len(s)) = s

IsTransitionStep ==
    \/ event'.op = "complete"
    \/ event'.op = "fetchFailed" /\ event'.outcome = "auth"

\* C21: while a request is in flight (its fetch pending or its body being
\* read) no step other than that request's completion or authentication
\* failure changes the in-memory history, the persisted history or the
\* stored credential.
C21_FrozenWhileInFlight ==
    [][(InFlight # {} /\ ~IsTransitionStep)
          => /\ chatHistory' = chatHistory
             /\ store'.chatHistory = store.chatHistory
             /\ store'.apiKey = store.apiKey]_vars

\* C22: the stored credential goes from present to absent only in a step
\* that handles a 401 or in the user's clear-credential action; a failure
\* that is no 401, a completed stream, a history clear and a history load
\* leave the stored credential as it is.
C22_CredentialRemovedOnlyByAuthOrUser ==
    [][/\ (store.apiKey.present /\ ~store'.apiKey.present)
            => \/ event'.op = "clearKey"
               \/ event'.op = "fetchFailed" /\ event'.outcome = "auth"
       /\ (\/ event'.outcome = "error"
           \/ event'.op \in {"complete", "clearHistory", "load"})
            => store'.apiKey = store.apiKey]_vars

\* a request sent with the stored key was answered 401 and the key is gone
C22_Witness ==
    /\ event.op = "fetchFailed"
    /\ event.outcome = "auth"
    /\ event.apiKey = <<"k">>
    /\ ~store.apiKey.present

\* C23: every assistant message of the history is immediately preceded by a
\* user message: the history never starts with an assistant message and
\* never holds two adjacent assistant messages.
C23_AssistantFollowsUser ==
    \A i \in DOMAIN chatHistory :
        chatHistory[i].role = "assistant"
            => i > 1 /\ chatHistory[i - 1].role = "user"

\* C24: apart from the clear-history action, every step leaves the history
\* it found as a prefix of the history it leaves: messages are appended at
\* the end and never edited, reordered or removed.
C24_HistoryOnlyGrows ==
    [][event'.op # "clearHistory" => IsPrefix(chatHistory, chatHistory')]_vars

\* a user message and then an assistant message were appended to a history
\* that held messages already
C24_Witness ==
    /\ event.op = "complete"
    /\ Len(chatHistory) >= 4
    /\ Last(chatHistory).role = "assistant"
    /\ chatHistory[Len(chatHistory) - 1].role = "user"

C26_WriteThrough ==
    ctrl = "ready" => Persisted = chatHistory

\* a completion was written while another request was still in flight
C26_Witness ==
    /\ event.op = "complete"
    /\ InFlight # {}
    /\ Len(chatHistory) >= 3
    /\ store.chatHistory = Item(JSONStringify(chatHistory))

\* the assistant messages of the history: onComplete pushes one per call
Completions == {i \in DOMAIN chatHistory : chatHistory[i].role = "assistant"}

\* C27: in a run of processStream onComplete is called once, by the step in
\* which the body ends, and never by a step in which a read or the loop
\* fails; after it the run has returned, so that no onChunk follows; and it
\* receives the value of the last onChunk call, or the empty text when
\* onChunk was never called.
C27_OnCompleteOnceAtEnd ==
    [][/\ Cardinality(Completions') = IF event'.op = "complete" THEN 1 ELSE 0
       /\ event'.op = "complete"
            => /\ tasks[event'.t].pc = "streaming"
               /\ tasks'[event'.t].pc = "done"
               /\ event'.result = IF event'.onChunkLog = <<>> THEN <<>>
                                  ELSE Last(event'.onChunkLog)
               /\ chatHistory' = Append(chatHistory, AssistantMessage(event'.result))
       /\ event'.op = "chunk"
            => /\ tasks[event'.t].pc = "streaming"
               /\ event.op # "complete"
       /\ (event'.op = "readFailed" \/ event'.outcome = "error")
            => /\ chatHistory' = chatHistory
               /\ tasks'[event'.t].pc = "done"]_vars

\* the body ended after several onChunk calls, the last of them carrying the
\* text onComplete received
C27_Witness ==
    /\ event.op = "complete"
    /\ Len(event.onChunkLog) >= 2
    /\ Last(event.onChunkLog) = event.result
    /\ event.result # <<>>
    /\ Last(chatHistory) = AssistantMessage(event.result)

\* C28: the message list a submission passes to the transport is the system
\* message followed by the whole in-memory history of that moment, which is
\* the history the submission found plus its own user message as the last
\* element: nothing else changed the history in between.
C28_RequestCarriesWholeHistory ==
    [][\A t \in Tasks :
          (event'.op = "submit" /\ event'.t = t /\ tasks'[t].pc = "fetching")
              => /\ tasks'[t].messages = <<SystemMessage>> \o chatHistory'
                 /\ chatHistory' = Append(chatHistory, UserMessage(tasks'[t].content))
                 /\ Last(tasks'[t].messages) = UserMessage(tasks'[t].content)
                 /\ event'.messages = tasks'[t].messages]_vars

\* a request was sent on top of an earlier exchange while another request
\* was still in flight
C28_Witness ==
    /\ event.op = "submit"
    /\ event.t \in Tasks
    /\ tasks[event.t].pc = "fetching"
    /\ Cardinality(InFlight) >= 2
    /\ Len(chatHistory) >= 3
    /\ Len(event.messages) = Len(chatHistory) + 1

====
